---- MODULE Spec2Model ----
(***************************************************************************)
(* Client-side search of the robot catalogue                               *)
(* (src/src/lib/client-search-utils.ts): query normalisation, the fuzzy    *)
(* search with exact-match promotion, the tag filter, the sort and the     *)
(* combined comprehensiveSearch.                                           *)
(*                                                                         *)
(* Strings that the code inspects character by character (queries, names,  *)
(* slugs) are sequences of one-character strings.  Tags and sort keys are  *)
(* only compared for equality and are plain strings.  A field that an      *)
(* entry does not have is a field missing from the record's DOMAIN.        *)
(***************************************************************************)
EXTENDS Integers, Sequences, FiniteSets, TLC

VARIABLES
    robots,      \* the caller's collection (argument `robots`)
    op,          \* the entry point that was called last
    query,       \* argument `query` of the last call
    tag,         \* option `tag`: <<>> is null/undefined, <<t>> is the string t
    sortBy,      \* option `sortBy`
    limit,       \* argument/option `limit`
    fuseKey,     \* what the last Fuse index was built over and asked for
    fuseOut,     \* what fuse.search returned for fuseKey (indices into the list)
    prev,        \* the preceding searchRobotsClientSide call on the same fuseKey
    result,      \* outcome of the last call: a returned value or a TypeError
    ranked,      \* every match of the last index query with its score, best first
    gh,          \* the getRepositoryDefaultBranch call in progress (github.ts)
    rt,          \* the withTimeoutAndRetry call in progress (performance.ts)
    qb,          \* a QueryBatcher and the promises it handed out (performance.ts)
    auth,        \* the AuthProvider component (contexts/AuthContext.tsx)
    tm           \* the tag list a TagManager edits (components/forms/TagManager.tsx)

vars == <<robots, op, query, tag, sortBy, limit, fuseKey, fuseOut, prev, result,
          ranked, gh, rt, qb, auth, tm>>

\* the state of the search module
searchVars == <<robots, op, query, tag, sortBy, limit, fuseKey, fuseOut, prev,
                result, ranked>>

\* the state outside the search module and github.ts
otherVars == <<rt, qb, auth, tm>>

-----------------------------------------------------------------------------
(* Bounds *)

MaxRobots == 3
MaxLimit == 2
MaxLen == 3

-----------------------------------------------------------------------------
(* JavaScript strings *)

Min(a, b) == IF a <= b THEN a ELSE b

\* String.prototype.toLowerCase on the characters the model uses
LowerChar(c) ==
    CASE c = "S" -> "s"
      [] c = "O" -> "o"
      [] c = "A" -> "a"
      [] c = "B" -> "b"
      [] OTHER -> c

ToLowerCase(s) == [i \in 1..Len(s) |-> LowerChar(s[i])]

\* \s of a JavaScript regular expression, and the white space trim() strips
IsSpace(c) == c \in {" ", "\t"}

\* the character class [\s\-_\.]
IsSeparator(c) == IsSpace(c) \/ c \in {"-", "_", "."}

RECURSIVE TrimStart(_)
TrimStart(s) ==
    IF s # <<>> /\ IsSpace(Head(s)) THEN TrimStart(Tail(s)) ELSE s

RECURSIVE TrimEnd(_)
TrimEnd(s) ==
    IF s # <<>> /\ IsSpace(s[Len(s)]) THEN TrimEnd(SubSeq(s, 1, Len(s) - 1)) ELSE s

\* String.prototype.trim
Trim(s) == TrimEnd(TrimStart(s))

\* s.replace(/[\s\-_\.]+/g, ' '): every maximal run of separators becomes one space
RECURSIVE ReplaceSeparators(_)
ReplaceSeparators(s) ==
    IF s = <<>> THEN <<>>
    ELSE IF IsSeparator(Head(s))
         THEN IF Len(s) > 1 /\ IsSeparator(s[2])
              THEN ReplaceSeparators(Tail(s))
              ELSE <<" ">> \o ReplaceSeparators(Tail(s))
         ELSE <<Head(s)>> \o ReplaceSeparators(Tail(s))

\* s.replace(/\s+/g, ' '): every maximal run of white space becomes one space
RECURSIVE ReplaceSpaces(_)
ReplaceSpaces(s) ==
    IF s = <<>> THEN <<>>
    ELSE IF IsSpace(Head(s))
         THEN IF Len(s) > 1 /\ IsSpace(s[2])
              THEN ReplaceSpaces(Tail(s))
              ELSE <<" ">> \o ReplaceSpaces(Tail(s))
         ELSE <<Head(s)>> \o ReplaceSpaces(Tail(s))

\* preprocessQuery: trim, lower-case, separators to a space, spaces collapsed
preprocessQuery(q) == ReplaceSpaces(ReplaceSeparators(ToLowerCase(Trim(q))))

\* a guard that forgets to trim
IsBlank_NoTrim(q) == q = <<>>

\* the guard `!query || !query.trim()`
IsBlank(q) == q = <<>> \/ Trim(q) = <<>>

-----------------------------------------------------------------------------
(* Outcomes of a call *)

Return(v) == [ok |-> TRUE, value |-> v]
TypeError == [ok |-> FALSE, value |-> <<>>]

NoCall == [ok |-> TRUE, value |-> <<>>]
NoPrev == [set |-> FALSE]

\* new Error('Unknown error'), the first value of lastError
UnknownError ==
    [isError |-> TRUE,
     message |-> <<"U", "n", "k", "n", "o", "w", "n", " ", "e", "r", "r", "o", "r">>]

\* withTimeoutAndRetry has not been called
RtIdle == [pc |-> "idle", maxRetries |-> 0, backoff |-> TRUE, attempt |-> 0,
           invocations |-> 0, lastError |-> UnknownError, log |-> <<>>,
           waits |-> <<>>, settled |-> "no", value |-> <<>>]

\* new QueryBatcher(): both maps empty, nothing handed out
QbIdle == [batches |-> <<>>, timeouts |-> <<>>, promises |-> <<>>, timers |-> <<>>,
           returned |-> <<>>, runs |-> <<>>]

\* session values: null (loading), false (loaded, no session), a Session
NullSession == [kind |-> "null", user |-> "null", token |-> 0]

FalseSession == [kind |-> "false", user |-> "null", token |-> 0]

\* useState(null) three times, `mounted` and `sessionInitialized` of the
\* effect, the profile requests in flight per user, and the last event
AuthState(isMounted, initStep) ==
    [mounted |-> isMounted, sessionInitialized |-> FALSE, session |-> NullSession,
     user |-> "null", profile |-> "null", init |-> initStep,
     pending |-> [u \in {"A", "B"} |-> 0],
     events |-> 0, event |-> [kind |-> "none", session |-> NullSession],
     eventSet |-> FALSE, initApplied |-> 0]

\* AuthProvider before it is mounted
AuthIdle == AuthState(FALSE, "none")

\* no TagManager is rendered
TmIdle == [op |-> "none", tags |-> <<>>, tagInput |-> <<>>, arg |-> <<>>,
           before |-> <<>>]

OthersIdle == rt = RtIdle /\ qb = QbIdle /\ auth = AuthIdle /\ tm = TmIdle

\* getRepositoryDefaultBranch has not been called
GhIdle == [pc |-> "idle", url |-> <<>>, requests |-> 0, readme |-> <<>>,
           lookup |-> "none", settled |-> "no", value |-> "none"]

-----------------------------------------------------------------------------
(* Entries (SearchableRobot) *)

HasField(r, f) == f \in DOMAIN r

\* Array.prototype.includes on a tag list
Includes(tags, t) == \E i \in 1..Len(tags) : tags[i] = t

\* new Date(created_at).getTime(), in days since the epoch; two spellings of
\* the same instant give the same time
DateGetTime(s) ==
    CASE s = "2024-01-01" -> 19723
      [] s = "2024-01-01T00:00:00.000Z" -> 19723
      [] s = "2024-01-02" -> 19724
      [] s = "2024-01-03" -> 19725
      [] OTHER -> 0

\* Collation of String.prototype.localeCompare (root locale): punctuation
\* before digits before letters at the first level, lower case before upper
\* case at the third level, which only breaks first-level ties
PrimaryWeight(c) ==
    CASE c = " " -> 1
      [] c = "\t" -> 1
      [] c = "_" -> 2
      [] c = "-" -> 3
      [] c = "." -> 4
      [] c = "0" -> 10
      [] c = "1" -> 11
      [] LowerChar(c) = "a" -> 20
      [] LowerChar(c) = "b" -> 21
      [] c = "d" -> 22
      [] c = "e" -> 23
      [] c = "f" -> 24
      [] c = "i" -> 25
      [] c = "n" -> 26
      [] LowerChar(c) = "o" -> 27
      [] LowerChar(c) = "s" -> 28
      [] c = "u" -> 29
      [] OTHER -> 30

CaseWeight(c) == IF LowerChar(c) = c THEN 0 ELSE 1

\* the collation weight of a character at a level (1: letter, 3: case)
Weight(level, c) == IF level = 1 THEN PrimaryWeight(c) ELSE CaseWeight(c)

RECURSIVE CompareWeights(_, _, _)
CompareWeights(a, b, level) ==
    IF a = <<>> THEN (IF b = <<>> THEN 0 ELSE -1)
    ELSE IF b = <<>> THEN 1
    ELSE IF Weight(level, Head(a)) < Weight(level, Head(b)) THEN -1
    ELSE IF Weight(level, Head(a)) > Weight(level, Head(b)) THEN 1
    ELSE CompareWeights(Tail(a), Tail(b), level)

localeCompare(a, b) ==
    LET p == CompareWeights(a, b, 1)
    IN  IF p # 0 THEN p ELSE CompareWeights(a, b, 3)

-----------------------------------------------------------------------------
(* searchRobotsClientSide *)

\* The Fuse index is library code.  For one list, pattern and limit,
\* fuse.search returns some ranking of distinct entries of the list, at most
\* `limit` of them, and the same ranking whenever it is asked again.  With
\* threshold 0.4 an entry whose lower-cased name or slug is within one edit of
\* the pattern scores 1/Len(pattern), so it is among the matches when that is
\* at most 0.4; it can be missing from the ranking only when the limit cut it.
RECURSIVE Rankings(_, _)
Rankings(idx, n) ==
    IF n = 0 THEN {<<>>}
    ELSE {<<>>} \cup {<<i>> \o r : i \in idx, r \in Rankings(idx, n - 1)}

Distinct(r) == \A i, j \in 1..Len(r) : i # j => r[i] # r[j]

\* threshold: 0.4, in tenths
FuseThresholdTenths == 4

\* at most one substitution, insertion or deletion turns a into b
RECURSIVE WithinOneEdit(_, _)
WithinOneEdit(a, b) ==
    IF a = <<>> THEN Len(b) <= 1
    ELSE IF b = <<>> THEN Len(a) <= 1
    ELSE IF Head(a) = Head(b) THEN WithinOneEdit(Tail(a), Tail(b))
    ELSE Tail(a) = Tail(b) \/ Tail(a) = b \/ a = Tail(b)

\* (the index skips a key the entry does not have)
FuseMustMatch(r, pattern) ==
    /\ 10 <= FuseThresholdTenths * Len(pattern)
    /\ \/ HasField(r, "name") /\ WithinOneEdit(ToLowerCase(r.name), pattern)
       \/ HasField(r, "slug") /\ WithinOneEdit(ToLowerCase(r.slug), pattern)

FuseKey(rs, pattern, lim) == [list |-> rs, pattern |-> pattern, limit |-> lim]

\* no index has been built yet
NoFuse == FuseKey(<<>>, <<>>, 0)

FuseSearch(rs, pattern, lim) ==
    IF fuseKey = FuseKey(rs, pattern, lim)
    THEN {fuseOut}
    ELSE {r \in Rankings(1..Len(rs), Min(lim, Len(rs))) :
            /\ Distinct(r)
            /\ \/ Len(r) = lim
               \/ \A i \in 1..Len(rs) :
                      FuseMustMatch(rs[i], pattern) => \E j \in 1..Len(r) : r[j] = i}

\* results that keep the matcher's score on each entry
Items_WithScore(rs, out) ==
    [i \in 1..Len(out) |->
        [f \in DOMAIN rs[out[i]] \cup {"score"} |->
            IF f = "score" THEN i ELSE rs[out[i]][f]]]

\* searchResults.map(result => result.item)
Items(rs, out) == [i \in 1..Len(out) |-> rs[out[i]]]

\* an exact-match scan that lower-cases the fields but not the query
exactMatches_RawQuery(rs, q) ==
    LET IsExact(r) == ToLowerCase(r.name) = q \/ ToLowerCase(r.slug) = q
    IN  SelectSeq(rs, IsExact)

\* an exact-match scan that looks at the name only
exactMatches_NameOnly(rs, q) ==
    LET IsExact(r) == ToLowerCase(r.name) = ToLowerCase(q)
    IN  SelectSeq(rs, IsExact)

\* the scan calls toLowerCase on robot.name, and on robot.slug when the name
\* is not equal to the query: a TypeError when that field is missing
ExactScanThrows(rs, q) ==
    \E i \in 1..Len(rs) :
        \/ ~ HasField(rs[i], "name")
        \/ /\ ToLowerCase(rs[i].name) # ToLowerCase(q)
           /\ ~ HasField(rs[i], "slug")

\* robots.filter(robot => robot.name.toLowerCase() === query.toLowerCase() ||
\*                        robot.slug.toLowerCase() === query.toLowerCase())
exactMatches(rs, q) ==
    LET IsExact(r) == \/ ToLowerCase(r.name) = ToLowerCase(q)
                      \/ ToLowerCase(r.slug) = ToLowerCase(q)
    IN  SelectSeq(rs, IsExact)

\* fuzzy results that keep the entries already promoted
fuzzyResults_Keep(results, exact) == results

\* results.filter(robot => !exactMatches.some(exact => exact.id === robot.id))
fuzzyResults(results, exact) ==
    LET NotExact(r) == ~ \E i \in 1..Len(exact) : exact[i].id = r.id
    IN  SelectSeq(results, NotExact)

\* the fuzzy results put before the exact matches
Combine_FuzzyFirst(exact, fuzzy, lim) ==
    SubSeq(fuzzy \o exact, 1, Min(lim, Len(exact) + Len(fuzzy)))

\* the fuzzy results dropped whenever there is an exact match
Combine_ExactOnly(exact, fuzzy, lim) == SubSeq(exact, 1, Min(lim, Len(exact)))

\* [...exactMatches, ...fuzzyResults].slice(0, limit)
Combine(exact, fuzzy, lim) ==
    SubSeq(exact \o fuzzy, 1, Min(lim, Len(exact) + Len(fuzzy)))

\* searchRobotsClientSide, given what fuse.search returned
searchRobotsClientSide(rs, q, lim, out) ==
    IF IsBlank(q) THEN Return(<<>>)
    ELSE IF ExactScanThrows(rs, q) THEN TypeError
    ELSE LET results == Items(rs, out)
             exact == exactMatches(rs, q)
         IN  IF Len(exact) > 0
             THEN Return(Combine(exact, fuzzyResults(results, exact), lim))
             ELSE Return(results)

-----------------------------------------------------------------------------
(* Tag filter and sort *)

\* the condition `tag && tag !== 'all'`
TagActive(t) == t # <<>> /\ t[1] # "" /\ t[1] # "all"

\* a tag filter that keeps every entry
TagFilter_Off(rs, t) == Return(rs)

\* robots.filter(robot => robot.tags.includes(tag)): reading `includes` of a
\* missing tags field is a TypeError
TagFilter(rs, t) ==
    IF ~ TagActive(t) THEN Return(rs)
    ELSE IF \E i \in 1..Len(rs) : ~ HasField(rs[i], "tags") THEN TypeError
    ELSE LET HasTag(r) == Includes(r.tags, t[1])
         IN  Return(SelectSeq(rs, HasTag))

\* (a as any).average_rating || 0
RatingOf(r) == IF HasField(r, "average_rating") THEN r.average_rating ELSE 0

\* what a.name.localeCompare(b.name) compares b as when b has no name: the
\* string "undefined" (a.name of an entry without a name is a TypeError)
NameOf(r) ==
    IF HasField(r, "name") THEN r.name
    ELSE <<"u", "n", "d", "e", "f", "i", "n", "e", "d">>

\* comparators with the two operands of the date and rating modes exchanged
Compare_Exchanged(sb, a, b) ==
    CASE sb = "newest" -> DateGetTime(a.created_at) - DateGetTime(b.created_at)
      [] sb = "oldest" -> DateGetTime(b.created_at) - DateGetTime(a.created_at)
      [] sb = "name" -> localeCompare(NameOf(a), NameOf(b))
      [] sb = "rating" -> RatingOf(a) - RatingOf(b)
      [] OTHER -> 0

\* the comparator of each sort mode: negative when a goes first
Compare(sb, a, b) ==
    CASE sb = "newest" -> DateGetTime(b.created_at) - DateGetTime(a.created_at)
      [] sb = "oldest" -> DateGetTime(a.created_at) - DateGetTime(b.created_at)
      [] sb = "name" -> localeCompare(NameOf(a), NameOf(b))
      [] sb = "rating" -> RatingOf(b) - RatingOf(a)
      [] OTHER -> 0

\* Array.prototype.sort is stable: an element goes after every element that
\* does not compare greater than it
RECURSIVE InsertSorted(_, _, _)
InsertSorted(sorted, x, sb) ==
    IF sorted = <<>> THEN <<x>>
    ELSE IF Compare(sb, sorted[Len(sorted)], x) <= 0 THEN Append(sorted, x)
    ELSE Append(InsertSorted(SubSeq(sorted, 1, Len(sorted) - 1), x, sb),
                sorted[Len(sorted)])

RECURSIVE StableSort(_, _)
StableSort(s, sb) ==
    IF s = <<>> THEN <<>>
    ELSE InsertSorted(StableSort(SubSeq(s, 1, Len(s) - 1), sb), s[Len(s)], sb)

\* a sort whose default case sorts by name
sortSearchResults_DefaultName(results, sb) ==
    IF sb \in {"newest", "oldest", "name", "rating"}
    THEN StableSort(results, sb)
    ELSE StableSort(results, "name")

\* sortSearchResults, when no comparator call throws
sortSearchResults(results, sb) ==
    IF sb \in {"newest", "oldest", "name", "rating"}
    THEN StableSort(results, sb)
    ELSE results

\* The name comparator throws when its first operand has no name.  Which
\* element the engine passes first is its own choice: with two or more
\* entries it throws for certain when none has a name, and it may throw as
\* soon as one has none.
SortMayThrow(results, sb) ==
    /\ sb = "name"
    /\ Len(results) >= 2
    /\ \E i \in 1..Len(results) : ~ HasField(results[i], "name")

SortMustThrow(results, sb) ==
    /\ sb = "name"
    /\ Len(results) >= 2
    /\ \A i \in 1..Len(results) : ~ HasField(results[i], "name")

\* the outcomes of sorting `input`, `sorted` being the sorted value
SortOutcomes(input, sb, sorted) ==
    IF SortMustThrow(input, sb) THEN {TypeError}
    ELSE IF SortMayThrow(input, sb) THEN {TypeError, Return(sorted)}
    ELSE {Return(sorted)}

\* a sort that sorts the caller's array itself
ArrayAfterSort_InPlace(results, sb) == sortSearchResults(results, sb)

\* the caller's array after sortSearchResults: every sorting case sorts the
\* copy [...results], the default case returns the array untouched
ArrayAfterSort(results, sb) == results

\* the browse path with the slice taken before the sort
Browse_SliceFirst(filtered, sb, lim) ==
    sortSearchResults(SubSeq(filtered, 1, Min(lim, Len(filtered))), sb)

\* a slice that returns the whole list
Slice_All(s, lim) == s

\* .slice(0, limit)
Slice(s, lim) == SubSeq(s, 1, Min(lim, Len(s)))

\* comprehensiveSearch without a query: sortSearchResults(filtered, sortBy).slice(0, limit)
Browse(filtered, sb, lim) == Slice(sortSearchResults(filtered, sb), lim)

\* the query path with the pool sorted before it is searched
QueryPath_SortFirst(filtered, q, sb, lim, out) ==
    searchRobotsClientSide(sortSearchResults(filtered, sb), q, lim, out).value

\* comprehensiveSearch with a query: the search result, then the sort
QueryPath(filtered, q, sb, lim, out) ==
    sortSearchResults(searchRobotsClientSide(filtered, q, lim, out).value, sb)

-----------------------------------------------------------------------------
(* The catalogue the collections are drawn from *)

Name_SO100 == <<"S", "O", "-", "1", "0", "0">>
Name_So100 == <<"S", "o", "-", "1", "0", "0">>
Str_so_100 == <<"s", "o", "-", "1", "0", "0">>
Str_so100 == <<"s", "o", "1", "0", "0">>
Str_so100sp == <<"s", "o", " ", "1", "0", "0">>

\* Four entries: two whose names equal "so-100" up to case, one whose name and
\* slug equal "so 100" and "so100", and one that has no tags field, shares its
\* id with the first and has the slug "so-100"
Catalog ==
    { [id |-> "1", name |-> Name_SO100, slug |-> <<"b">>,
       tags |-> <<"arm", "kit">>, created_at |-> "2024-01-02",
       average_rating |-> 2],
      [id |-> "2", name |-> Str_so100sp, slug |-> Str_so100,
       tags |-> <<"arm">>, created_at |-> "2024-01-01"],
      [id |-> "3", name |-> Name_So100, slug |-> <<"B">>,
       tags |-> <<>>, created_at |-> "2024-01-01T00:00:00.000Z",
       average_rating |-> 0],
      [id |-> "1", name |-> <<"a">>, slug |-> Str_so_100,
       created_at |-> "2024-01-03", average_rating |-> 1] }

RECURSIVE Arrangements(_)
Arrangements(n) ==
    IF n = 0 THEN {<<>>}
    ELSE {<<>>} \cup
         {Append(s, e) : s \in Arrangements(n - 1), e \in Catalog}

\* every list of at most MaxRobots different catalogue entries
Collections ==
    {s \in Arrangements(MaxRobots) : \A i, j \in 1..Len(s) : i # j => s[i] # s[j]}

Queries ==
    {<<>>, <<" ">>, Str_so_100, Name_SO100, Str_so100, Str_so100sp, <<"A">>}

Tags == {<<>>, <<"">>, <<"all">>, <<"arm">>}

\* "popular" is a value the switch does not know; an absent sortBy is the
\* default parameter value "relevance"
SortModes == {"relevance", "newest", "oldest", "name", "rating", "popular"}

Limits == 1..MaxLimit

Init ==
    /\ robots \in Collections
    /\ op = "init"
    /\ query = <<>>
    /\ tag = <<>>
    /\ sortBy = "relevance"
    /\ limit = 1
    /\ fuseKey = NoFuse
    /\ fuseOut = <<>>
    /\ prev = NoPrev
    /\ result = NoCall
    /\ ranked = <<>>
    /\ gh = GhIdle
    /\ OthersIdle

\* searchRobotsClientSide(robots, q, lim).  The module keeps nothing between
\* calls, so every call starts from the caller's collection; one further
\* search may follow a search that asks the same index for the same pattern.
CallSearchRobotsClientSide(q, lim) ==
    /\ \/ op = "init"
       \/ /\ op = "searchRobotsClientSide"
          /\ prev = NoPrev
          /\ fuseKey = FuseKey(robots, preprocessQuery(q), lim)
    /\ op' = "searchRobotsClientSide"
    /\ query' = q
    /\ limit' = lim
    /\ UNCHANGED <<robots, tag, sortBy, ranked, gh, otherVars>>
    /\ IF IsBlank(q)
       THEN /\ result' = searchRobotsClientSide(robots, q, lim, <<>>)
            /\ prev' = NoPrev
            /\ UNCHANGED <<fuseKey, fuseOut>>
       ELSE \E out \in FuseSearch(robots, preprocessQuery(q), lim) :
            /\ fuseKey' = FuseKey(robots, preprocessQuery(q), lim)
            /\ fuseOut' = out
            /\ result' = searchRobotsClientSide(robots, q, lim, out)
            /\ prev' = IF op = "searchRobotsClientSide"
                       THEN [set |-> TRUE, query |-> query, result |-> result]
                       ELSE NoPrev

\* The search inside searchRobotsWithTagFilter and comprehensiveSearch: filter
\* by tag, then search the filtered list, then sort (sb is "relevance" when
\* the caller does not sort)
FilteredSearch(q, t, sb, lim) ==
    LET filtered == TagFilter(robots, t)
    IN  IF ~ filtered.ok
        THEN /\ result' = TypeError
             /\ UNCHANGED <<fuseKey, fuseOut>>
        ELSE IF IsBlank(q)
        THEN /\ result' = Return(<<>>)
             /\ UNCHANGED <<fuseKey, fuseOut>>
        ELSE \E out \in FuseSearch(filtered.value, preprocessQuery(q), lim) :
             /\ fuseKey' = FuseKey(filtered.value, preprocessQuery(q), lim)
             /\ fuseOut' = out
             /\ LET found == searchRobotsClientSide(filtered.value, q, lim, out)
                IN  IF ~ found.ok
                    THEN result' = TypeError
                    ELSE result' \in SortOutcomes(found.value, sb,
                                     QueryPath(filtered.value, q, sb, lim, out))

\* searchRobotsWithTagFilter(robots, q, t, lim)
CallSearchRobotsWithTagFilter(q, t, lim) ==
    /\ op = "init"
    /\ op' = "searchRobotsWithTagFilter"
    /\ query' = q
    /\ tag' = t
    /\ limit' = lim
    /\ prev' = NoPrev
    /\ UNCHANGED <<robots, sortBy, ranked, gh, otherVars>>
    /\ FilteredSearch(q, t, "relevance", lim)

\* sortSearchResults(robots, sb)
CallSortSearchResults(sb) ==
    /\ op = "init"
    /\ op' = "sortSearchResults"
    /\ sortBy' = sb
    /\ result' \in SortOutcomes(robots, sb, sortSearchResults(robots, sb))
    /\ robots' = ArrayAfterSort(robots, sb)
    /\ prev' = NoPrev
    /\ UNCHANGED <<query, tag, limit, fuseKey, fuseOut, ranked, gh, otherVars>>

\* comprehensiveSearch(robots, q, {tag: t, sortBy: sb, limit: lim})
CallComprehensiveSearch(q, t, sb, lim) ==
    /\ op = "init"
    /\ op' = "comprehensiveSearch"
    /\ query' = q
    /\ tag' = t
    /\ sortBy' = sb
    /\ limit' = lim
    /\ prev' = NoPrev
    /\ UNCHANGED <<ranked, gh, otherVars>>
    /\ IF IsBlank(q)
       THEN LET filtered == TagFilter(robots, t)
            IN  /\ IF filtered.ok
                   THEN result' \in SortOutcomes(filtered.value, sb,
                                        Browse(filtered.value, sb, lim))
                   ELSE result' = TypeError
                \* without an active tag the list that is sorted is the
                \* caller's own array
                /\ robots' = IF TagActive(t) THEN robots
                             ELSE ArrayAfterSort(robots, sb)
                /\ UNCHANGED <<fuseKey, fuseOut>>
       ELSE /\ UNCHANGED robots
            /\ FilteredSearch(q, t, sb, lim)

Next ==
    \/ \E q \in Queries, lim \in Limits : CallSearchRobotsClientSide(q, lim)
    \/ \E q \in Queries, t \in Tags, lim \in Limits :
          CallSearchRobotsWithTagFilter(q, t, lim)
    \/ \E sb \in SortModes : CallSortSearchResults(sb)
    \/ \E q \in Queries, t \in Tags, sb \in SortModes, lim \in Limits :
          CallComprehensiveSearch(q, t, sb, lim)

Spec == Init /\ [][Next]_vars

-----------------------------------------------------------------------------
(* Properties of the search *)

EqualsIgnoreCase(a, b) == ToLowerCase(a) = ToLowerCase(b)

IsExactFor(r, q) == EqualsIgnoreCase(r.name, q) \/ EqualsIgnoreCase(r.slug, q)

\* the entries of a list that equal the raw query in name or slug, in list order
ExactOf(rs, q) == LET Test(r) == IsExactFor(r, q) IN SelectSeq(rs, Test)

Searched == op = "searchRobotsClientSide" /\ Trim(query) # <<>> /\ result.ok

DistinctIds(rs) == \A i, j \in 1..Len(rs) : i # j => rs[i].id # rs[j].id

\* C1: for a non-blank query, the first min(|E|, limit) results of
\* searchRobotsClientSide are the first exact name/slug matches E of the full
\* collection, in collection order, whether the matcher returned them or not;
\* with |E| >= limit every result is an exact match.
C1_ExactMatchesFirst ==
    Searched =>
        LET E == ExactOf(robots, query)
            k == Min(Len(E), limit)
        IN  /\ Len(result.value) >= k
            /\ SubSeq(result.value, 1, k) = SubSeq(E, 1, k)
            /\ Len(E) >= limit =>
                   \A i \in 1..Len(result.value) : IsExactFor(result.value[i], query)

\* an exact match the matcher did not return is promoted ahead of the entry
\* the matcher ranked first
C1_Witness ==
    /\ Searched
    /\ Len(ExactOf(robots, query)) >= 1
    /\ Len(fuseOut) >= 1
    /\ ~ IsExactFor(robots[fuseOut[1]], query)
    /\ \A i \in 1..Len(fuseOut) : robots[fuseOut[i]] # ExactOf(robots, query)[1]
    /\ result.value[1] = ExactOf(robots, query)[1]
    /\ Len(result.value) = 2

\* C2: over a collection with pairwise distinct ids, no id occurs twice in
\* the list searchRobotsClientSide or comprehensiveSearch returns.
C2_NoDuplicateIds ==
    (/\ op \in {"searchRobotsClientSide", "comprehensiveSearch"}
     /\ result.ok
     /\ DistinctIds(robots)) => DistinctIds(result.value)

\* an entry that is both an exact match and a fuzzy match is returned once
C2_Witness ==
    /\ Searched
    /\ DistinctIds(robots)
    /\ \E i \in 1..Len(fuseOut) : IsExactFor(robots[fuseOut[i]], query)
    /\ Len(fuseOut) = 2
    /\ Len(result.value) = 2

\* C3: searchRobotsClientSide and comprehensiveSearch (with a query and
\* without one) return at most `limit` entries.
C3_AtMostLimit ==
    (op \in {"searchRobotsClientSide", "comprehensiveSearch"} /\ result.ok)
        => Len(result.value) <= limit

\* browsing a collection larger than the limit fills the limit exactly
C3_Witness ==
    /\ op = "comprehensiveSearch"
    /\ Trim(query) = <<>>
    /\ ~ TagActive(tag)
    /\ Len(robots) > limit
    /\ Len(result.value) = limit

\* C4: searchRobotsClientSide returns the empty list for an empty or
\* white-space-only query, whatever the collection and limit.
C4_BlankQueryEmpty ==
    (op = "searchRobotsClientSide" /\ Trim(query) = <<>>) => result = Return(<<>>)

\* a white-space query over a non-empty collection
C4_Witness ==
    /\ op = "searchRobotsClientSide"
    /\ query = <<" ">>
    /\ Len(robots) > 0
    /\ result = Return(<<>>)

\* C5: with a tag that is non-empty and not 'all', every entry that
\* comprehensiveSearch or searchRobotsWithTagFilter returns carries the tag,
\* also an entry promoted as an exact match.
C5_TagFilterHolds ==
    (/\ op \in {"comprehensiveSearch", "searchRobotsWithTagFilter"}
     /\ result.ok
     /\ tag # <<>> /\ tag[1] # "" /\ tag[1] # "all")
        => \A i \in 1..Len(result.value) :
               /\ "tags" \in DOMAIN result.value[i]
               /\ \E j \in 1..Len(result.value[i].tags) :
                      result.value[i].tags[j] = tag[1]

\* an entry that equals the query exactly but lacks the tag is left out while
\* a tagged one is returned
C5_Witness ==
    /\ op = "comprehensiveSearch"
    /\ result.ok
    /\ tag = <<"arm">>
    /\ Trim(query) # <<>>
    /\ \E i \in 1..Len(robots) :
           /\ IsExactFor(robots[i], query)
           /\ ~ Includes(robots[i].tags, "arm")
    /\ Len(result.value) >= 1

\* the rating a sort by rating goes by: 0 for an entry without one
RatingKey(r) == IF "average_rating" \in DOMAIN r THEN r.average_rating ELSE 0

\* C6: what sortSearchResults and comprehensiveSearch return is ordered by
\* the requested key: 'name' non-decreasing (in the collation of
\* localeCompare), 'newest' non-increasing and 'oldest' non-decreasing in
\* the time of created_at, 'rating' non-increasing in average_rating with a
\* missing rating counted as 0.
C6_SortedByKey ==
    (op \in {"sortSearchResults", "comprehensiveSearch"} /\ result.ok) =>
        \A i, j \in 1..Len(result.value) : i < j =>
            LET a == result.value[i]
                b == result.value[j]
            IN  /\ sortBy = "name" => localeCompare(a.name, b.name) <= 0
                /\ sortBy = "newest" =>
                       DateGetTime(a.created_at) >= DateGetTime(b.created_at)
                /\ sortBy = "oldest" =>
                       DateGetTime(a.created_at) <= DateGetTime(b.created_at)
                /\ sortBy = "rating" => RatingKey(a) >= RatingKey(b)

\* a sort by rating that moves an entry without a rating behind rated ones
C6_Witness ==
    /\ op = "sortSearchResults"
    /\ sortBy = "rating"
    /\ Len(robots) = 3
    /\ ~ HasField(robots[1], "average_rating")
    /\ result.ok
    /\ result.value # robots
    /\ ~ HasField(result.value[3], "average_rating")

\* C8: over a collection with an entry named "SO-100", searchRobotsClientSide
\* returns the same sequence for the queries "so-100", "so100", "so 100" and
\* "SO-100".
C8_SeparatorInvariance ==
    (/\ op = "searchRobotsClientSide"
     /\ prev.set
     /\ \E i \in 1..Len(robots) : robots[i].name = Name_SO100
     /\ {query, prev.query} \subseteq {Str_so_100, Str_so100, Str_so100sp, Name_SO100})
        => result = prev.result

\* C9: two queries that differ only in letter case make
\* searchRobotsClientSide return the same sequence; the pattern handed to the
\* matcher is the one of the lower-cased query.
C9_CaseInsensitive ==
    /\ (op = "searchRobotsClientSide" /\ prev.set
            /\ ToLowerCase(prev.query) = ToLowerCase(query))
        => result = prev.result
    /\ Searched => fuseKey.pattern = preprocessQuery(ToLowerCase(query))

\* "so-100" and then "SO-100" over a collection with an exact match
C9_Witness ==
    /\ op = "searchRobotsClientSide"
    /\ prev.set
    /\ prev.query = Str_so_100
    /\ query = Name_SO100
    /\ Len(ExactOf(robots, query)) >= 1
    /\ Len(result.value) = 2
    /\ result = prev.result

\* C10: with an active tag filter, comprehensiveSearch and
\* searchRobotsWithTagFilter return normally over a collection that holds an
\* entry without a tags field, and leave that entry out.
C10_MissingTagsTolerated ==
    (/\ op \in {"comprehensiveSearch", "searchRobotsWithTagFilter"}
     /\ tag # <<>> /\ tag[1] # "" /\ tag[1] # "all"
     /\ \E i \in 1..Len(robots) : "tags" \notin DOMAIN robots[i])
        => /\ result.ok
           /\ \A i \in 1..Len(result.value) : "tags" \in DOMAIN result.value[i]

-----------------------------------------------------------------------------
(* Frame, membership and order of the results *)

\* C12: no call changes the caller's collection: after every call of
\* searchRobotsClientSide, searchRobotsWithTagFilter, sortSearchResults and
\* comprehensiveSearch the collection holds the same entries, in the same
\* order, with the same field values.
C12_InputNotMutated == [][robots' = robots]_vars

\* a sort by name that returns another order than the caller's, whose
\* collection is as it was
C12_Witness ==
    /\ op = "sortSearchResults"
    /\ sortBy = "name"
    /\ result.ok
    /\ Len(robots) = 3
    /\ result.value # robots
    /\ result.value[1] = robots[3]

\* how often e occurs in s
Count(s, e) == Cardinality({i \in 1..Len(s) : s[i] = e})

\* C13: every element of a returned list is an entry of the caller's
\* collection with exactly the fields it has there (no wrapper, no score),
\* and no entry is returned more often than the collection holds it.
C13_ResultsAreInputEntries ==
    (op # "init" /\ result.ok) =>
        \A i \in 1..Len(result.value) :
            /\ Count(robots, result.value[i]) >= 1
            /\ Count(result.value, result.value[i]) <= Count(robots, result.value[i])

\* a search that got two results from the matcher and returned two entries
C13_Witness ==
    /\ op = "searchRobotsClientSide"
    /\ result.ok
    /\ Len(fuseOut) = 2
    /\ Len(result.value) = 2
    /\ ExactOf(robots, query) = <<>>

\* the entries a tag lets through, in collection order
Kept(rs, t) ==
    IF t = <<>> \/ t[1] = "" \/ t[1] = "all" THEN rs
    ELSE LET Tagged(r) == \E k \in 1..Len(r.tags) : r.tags[k] = t[1]
         IN  SelectSeq(rs, Tagged)

\* a is not behind b in the order sortBy asks for
KeyLE(sb, a, b) ==
    CASE sb = "name" -> localeCompare(a.name, b.name) <= 0
      [] sb = "newest" -> DateGetTime(a.created_at) >= DateGetTime(b.created_at)
      [] sb = "oldest" -> DateGetTime(a.created_at) <= DateGetTime(b.created_at)
      [] sb = "rating" -> RatingKey(a) >= RatingKey(b)
      [] OTHER -> TRUE

Perms(n) == {p \in [1..n -> 1..n] : \A i, j \in 1..n : i # j => p[i] # p[j]}

\* p lists the positions of src in the order of sb, equal keys in the order
\* of src
OrderedStably(src, p, sb) ==
    \A i, j \in 1..Len(src) : i < j =>
        /\ KeyLE(sb, src[p[i]], src[p[j]])
        /\ KeyLE(sb, src[p[j]], src[p[i]]) => p[i] < p[j]

\* C14: with an empty or whitespace-only query comprehensiveSearch returns
\* the first limit entries of the tag-filtered collection put in the order
\* of sortBy (filter, then sort, then truncation); without a tag (or with
\* 'all') and with sortBy 'relevance' these are the first limit entries of
\* the collection in their own order.
C14_BrowsePath ==
    (op = "comprehensiveSearch" /\ Trim(query) = <<>> /\ result.ok) =>
        LET kept == Kept(robots, tag)
            n == Min(limit, Len(kept))
        IN  /\ \E p \in Perms(Len(kept)) :
                   /\ OrderedStably(kept, p, sortBy)
                   /\ result.value = [i \in 1..n |-> kept[p[i]]]
            /\ (sortBy = "relevance" /\ kept = robots) =>
                   result.value = SubSeq(robots, 1, Min(limit, Len(robots)))

\* browsing by name under a tag returns an entry that stands behind the
\* first limit tagged entries of the collection
C14_Witness ==
    /\ op = "comprehensiveSearch"
    /\ Trim(query) = <<>>
    /\ result.ok
    /\ tag = <<"arm">>
    /\ sortBy = "name"
    /\ limit = 1
    /\ Len(robots) = 3
    /\ Len(Kept(robots, tag)) = 2
    /\ result.value = <<Kept(robots, tag)[2]>>

\* the entries the matcher returned, in its order
Matched(rs, out) == [i \in 1..Len(out) |-> rs[out[i]]]

\* exact matches first, then the matcher's entries whose id no exact match
\* has, cut at lim
Promoted(rs, q, lim, out) ==
    LET E == ExactOf(rs, q)
        NotExact(r) == \A k \in 1..Len(E) : E[k].id # r.id
        all == E \o SelectSeq(Matched(rs, out), NotExact)
    IN  SubSeq(all, 1, Min(lim, Len(all)))

SortingModes == {"newest", "oldest", "name", "rating"}

\* C15: for sortBy 'relevance' (also the value of an absent sortBy) and for
\* a value the switch does not know, sortSearchResults returns its input in
\* unchanged order and does not throw, and comprehensiveSearch returns the
\* order of the stage before the sort: the promoted search result for a
\* query, the truncated tag-filtered collection without one.
C15_DefaultSortIsIdentity ==
    /\ (op = "sortSearchResults" /\ sortBy \notin SortingModes) =>
           result = Return(robots)
    /\ (op = "comprehensiveSearch" /\ sortBy \notin SortingModes /\ result.ok) =>
           LET kept == Kept(robots, tag)
           IN  result.value =
                   IF Trim(query) = <<>>
                   THEN SubSeq(kept, 1, Min(limit, Len(kept)))
                   ELSE Promoted(kept, query, limit, fuseOut)

\* an unknown sortBy after a search leaves two results in an order that a
\* sort by name would exchange
C15_Witness ==
    /\ op = "comprehensiveSearch"
    /\ sortBy = "popular"
    /\ Trim(query) # <<>>
    /\ result.ok
    /\ Len(result.value) = 2
    /\ localeCompare(result.value[1].name, result.value[2].name) > 0

\* C18: for a non-blank query, with F the matcher's ranked result (at most
\* limit entries) and E the exact name/slug matches in collection order,
\* searchRobotsClientSide returns the first limit elements of E followed by
\* the elements of F whose id no element of E has; it returns F when E is
\* empty, and nothing that is in neither E nor F.
C18_PromotionThenFuzzy ==
    Searched =>
        LET E == ExactOf(robots, query)
            F == Matched(robots, fuseOut)
        IN  /\ Len(F) <= limit
            /\ result.value = Promoted(robots, query, limit, fuseOut)
            /\ E = <<>> => result.value = F
            /\ \A i \in 1..Len(result.value) :
                   \/ \E k \in 1..Len(E) : E[k] = result.value[i]
                   \/ \E k \in 1..Len(F) : F[k] = result.value[i]

\* a slug match that the matcher ranked second comes first, the matcher's
\* first result follows it
C18_Witness ==
    /\ Searched
    /\ limit = 2
    /\ Len(fuseOut) = 2
    /\ Len(ExactOf(robots, query)) = 1
    /\ ~ EqualsIgnoreCase(ExactOf(robots, query)[1].name, query)
    /\ Matched(robots, fuseOut)[2] = ExactOf(robots, query)[1]
    /\ result.value = <<robots[fuseOut[2]], robots[fuseOut[1]]>>

\* s and t hold the same elements the same number of times
IsPermutation(s, t) ==
    /\ Len(s) = Len(t)
    /\ \A i \in 1..Len(s) : Count(s, s[i]) = Count(t, s[i])

\* C20: with a non-blank query the result of comprehensiveSearch for any
\* sortBy is a permutation of its result for sortBy 'relevance' (for the
\* same answer of the matcher): the sort comes after the selection of the
\* limit entries.
C20_SortKeepsMembership ==
    (op = "comprehensiveSearch" /\ Trim(query) # <<>> /\ result.ok) =>
        IsPermutation(result.value,
                      Promoted(Kept(robots, tag), query, limit, fuseOut))

\* a sort by name that returns the two entries of the relevance result in
\* the other order
C20_Witness ==
    /\ op = "comprehensiveSearch"
    /\ Trim(query) # <<>>
    /\ result.ok
    /\ sortBy = "name"
    /\ Len(result.value) = 2
    /\ Len(robots) = 3
    /\ result.value # Promoted(Kept(robots, tag), query, limit, fuseOut)

-----------------------------------------------------------------------------
(* Inputs of the normaliser: every string of at most MaxLen characters *)

Alphabet == {"a", "A", "1", " ", "-", "."}

RECURSIVE StringsOfLen(_)
StringsOfLen(n) ==
    IF n = 0 THEN {<<>>}
    ELSE {<<c>> \o s : c \in Alphabet, s \in StringsOfLen(n - 1)}

Strings == UNION {StringsOfLen(n) : n \in 0..MaxLen}

InitNorm ==
    /\ robots = <<>>
    /\ op = "init"
    /\ query = <<>>
    /\ tag = <<>>
    /\ sortBy = "relevance"
    /\ limit = 1
    /\ fuseKey = NoFuse
    /\ fuseOut = <<>>
    /\ prev = NoPrev
    /\ result = NoCall
    /\ ranked = <<>>
    /\ gh = GhIdle
    /\ OthersIdle

\* preprocessQuery(x) for a fresh string x
CallPreprocessQuery(x) ==
    /\ op' = "preprocessQuery"
    /\ query' = x
    /\ result' = Return(preprocessQuery(x))
    /\ UNCHANGED <<robots, tag, sortBy, limit, fuseKey, fuseOut, prev, ranked, gh, otherVars>>

\* preprocessQuery applied to the string the preceding call returned
CallPreprocessQueryAgain ==
    /\ op \in {"preprocessQuery", "preprocessQuery2"}
    /\ op' = "preprocessQuery2"
    /\ query' = result.value
    /\ result' = Return(preprocessQuery(result.value))
    /\ UNCHANGED <<robots, tag, sortBy, limit, fuseKey, fuseOut, prev, ranked, gh, otherVars>>

NextNorm ==
    \/ \E x \in Strings : CallPreprocessQuery(x)
    \/ CallPreprocessQueryAgain

SpecNorm == InitNorm /\ [][NextNorm]_vars

-----------------------------------------------------------------------------
\* C7: query normalisation is idempotent: normalising the output of
\* preprocessQuery again gives the same string, for every input string.
C7_NormalizeIdempotent ==
    op = "preprocessQuery2" => result.value = query

-----------------------------------------------------------------------------
(* Collections with partial entries: the fields of SearchableRobot are not  *)
(* checked at run time, so a record of the catalogue may lack any of them    *)

PartialCatalog ==
    { [id |-> "1", slug |-> <<"a">>, tags |-> <<"arm">>,
       created_at |-> "2024-01-01"],
      [id |-> "2", name |-> <<"a">>, tags |-> <<"arm">>,
       created_at |-> "2024-01-02"],
      [id |-> "3", name |-> <<"b">>, slug |-> <<"b">>, tags |-> <<>>,
       created_at |-> "2024-01-03", average_rating |-> 1] }

\* every list of at most MaxRobots different entries of PartialCatalog
PartialCollections ==
    {s \in UNION {[1..n -> PartialCatalog] : n \in 0..MaxRobots} :
        \A i, j \in 1..Len(s) : i # j => s[i] # s[j]}

InitPartial ==
    /\ robots \in PartialCollections
    /\ op = "init"
    /\ query = <<>>
    /\ tag = <<>>
    /\ sortBy = "relevance"
    /\ limit = 1
    /\ fuseKey = NoFuse
    /\ fuseOut = <<>>
    /\ prev = NoPrev
    /\ result = NoCall
    /\ ranked = <<>>
    /\ gh = GhIdle
    /\ OthersIdle

SpecPartial == InitPartial /\ [][Next]_vars

\* C11: over every collection, entries without name or slug included,
\* searchRobotsClientSide and comprehensiveSearch return a list for every
\* non-blank query and every sortBy: no call ends in an exception.
C11_SearchIsTotal ==
    (/\ op \in {"searchRobotsClientSide", "comprehensiveSearch"}
     /\ Trim(query) # <<>>)
        => result.ok

-----------------------------------------------------------------------------
(* The search with the scores of the index in view.  fuse.search computes   *)
(* a score for every entry (0 is a perfect match), keeps the entries whose   *)
(* score is within the threshold, sorts them (shouldSort: true: by score,    *)
(* equal scores by position in the collection) and cuts the list at limit.   *)

\* scores in tenths: a perfect match, a middling one, one at the threshold
Scores == {0, FuseThresholdTenths \div 2, FuseThresholdTenths}

NoMatch == FuseThresholdTenths + 1

\* the score of every entry; entries beyond the threshold have NoMatch
Scorings(rs, pattern) ==
    {f \in [1..Len(rs) -> Scores \cup {NoMatch}] :
        \A i \in 1..Len(rs) : FuseMustMatch(rs[i], pattern) => f[i] # NoMatch}

\* an index that leaves its matches in collection order (shouldSort: false)
RECURSIVE RankBy_ByIndex(_, _)
RankBy_ByIndex(f, S) ==
    IF S = {} THEN <<>>
    ELSE LET first == CHOOSE i \in S : \A j \in S : i <= j
         IN  <<[idx |-> first, score |-> f[first]]>> \o RankBy_ByIndex(f, S \ {first})

\* shouldSort: true with the index's own sortFn: lower score first, equal
\* scores by position
RECURSIVE RankBy(_, _)
RankBy(f, S) ==
    IF S = {} THEN <<>>
    ELSE LET best == CHOOSE i \in S :
                 \A j \in S : f[i] < f[j] \/ (f[i] = f[j] /\ i <= j)
         IN  <<[idx |-> best, score |-> f[best]]>> \o RankBy(f, S \ {best})

\* every match of the pattern, best first
Ranking(rs, f) == RankBy(f, {i \in 1..Len(rs) : f[i] # NoMatch})

\* fuse.search(processedQuery, { limit }): the first limit matches
Capped(rk, lim) == [i \in 1..Min(lim, Len(rk)) |-> rk[i].idx]

InitRank ==
    /\ robots \in Collections
    /\ op = "init"
    /\ query = <<>>
    /\ tag = <<>>
    /\ sortBy = "relevance"
    /\ limit = 1
    /\ fuseKey = NoFuse
    /\ fuseOut = <<>>
    /\ prev = NoPrev
    /\ result = NoCall
    /\ ranked = <<>>
    /\ gh = GhIdle
    /\ OthersIdle

\* searchRobotsClientSide(robots, q, lim), the scores of the index recorded
CallSearchRanked(q, lim) ==
    /\ op = "init"
    /\ op' = "searchRobotsClientSide"
    /\ query' = q
    /\ limit' = lim
    /\ prev' = NoPrev
    /\ UNCHANGED <<robots, tag, sortBy, gh, otherVars>>
    /\ IF IsBlank(q)
       THEN /\ result' = searchRobotsClientSide(robots, q, lim, <<>>)
            /\ UNCHANGED <<fuseKey, fuseOut, ranked>>
       ELSE \E f \in Scorings(robots, preprocessQuery(q)) :
            /\ ranked' = Ranking(robots, f)
            /\ fuseKey' = FuseKey(robots, preprocessQuery(q), lim)
            /\ fuseOut' = Capped(Ranking(robots, f), lim)
            /\ result' = searchRobotsClientSide(robots, q, lim,
                                                Capped(Ranking(robots, f), lim))

NextRank == \E q \in Queries, lim \in Limits : CallSearchRanked(q, lim)

SpecRank == InitRank /\ [][NextRank]_vars

\* C16: when no entry is an exact name/slug match of the query, the list
\* searchRobotsClientSide returns is the best matches in the order of the
\* index: by relevance, best (lowest score) first, entries of equal score in
\* their order in the collection.
C16_OrderedByRelevance ==
    (Searched /\ ExactOf(robots, query) = <<>>) =>
        /\ Len(result.value) = Min(limit, Len(ranked))
        /\ \A i \in 1..Len(result.value) : result.value[i] = robots[ranked[i].idx]
        /\ \A i, j \in 1..Len(result.value) : i < j =>
               \/ ranked[i].score < ranked[j].score
               \/ /\ ranked[i].score = ranked[j].score
                  /\ ranked[i].idx < ranked[j].idx

\* the best match, which stands last in the collection, is returned first;
\* of the two equal matches behind it the limit keeps the one that stands
\* first in the collection
C16_Witness ==
    /\ Searched
    /\ ExactOf(robots, query) = <<>>
    /\ limit = 2
    /\ Len(ranked) = 3
    /\ ranked[1].idx = 3
    /\ ranked[1].score < ranked[2].score
    /\ ranked[2].score = ranked[3].score
    /\ result.value = <<robots[3], robots[1]>>

\* the positions of the entries that match the pattern or equal the query
MatchSet ==
    {ranked[i].idx : i \in 1..Len(ranked)}
        \cup {i \in 1..Len(robots) : IsExactFor(robots[i], query)}

\* C19: over a collection with distinct ids and for a non-blank query,
\* searchRobotsClientSide returns min(limit, n) entries, n being the number
\* of entries that the index matches or that equal the query in name or
\* slug: cutting the index's list at limit before the exact matches are
\* taken out of it loses nothing.
C19_CapDoesNotStarve ==
    (Searched /\ DistinctIds(robots)) =>
        Len(result.value) = Min(limit, Cardinality(MatchSet))

\* the index's list is cut at limit, holds the exact match, and the result
\* is still full
C19_Witness ==
    /\ Searched
    /\ DistinctIds(robots)
    /\ limit = 2
    /\ Len(ranked) = 3
    /\ Len(ExactOf(robots, query)) = 1
    /\ \E k \in 1..Len(fuseOut) : robots[fuseOut[k]] = ExactOf(robots, query)[1]
    /\ Len(result.value) = 2

-----------------------------------------------------------------------------
(* getRepositoryDefaultBranch (src/src/lib/github.ts).  A URL is a sequence *)
(* of pieces: the text "github.com", a slash, or "x", a run of characters    *)
(* without a slash.  The function runs up to its next await in one step;     *)
(* each answer of GitHub is a step of its own.                               *)

MaxUrlLen == 5

UrlPieces == {"github.com", "/", "x"}

Urls == UNION {[1..n -> UrlPieces] : n \in 0..MaxUrlLen}

\* [^\/]+ at the head of s: it starts with a piece that is not a slash
Segment(s) == s # <<>> /\ Head(s) # "/"

RECURSIVE SegmentThenSlashSegment(_)

\* ([^\/]+)\/([^\/]+) at the head of s
SegmentThenSlashSegment(s) ==
    /\ Segment(s)
    /\ \/ Len(s) >= 3 /\ s[2] = "/" /\ Segment(SubSeq(s, 3, Len(s)))
       \/ SegmentThenSlashSegment(Tail(s))

\* githubUrl.match(/github\.com\/([^\/]+)\/([^\/]+)/) is not null
UrlMatches(u) ==
    \E i \in 1..Len(u) :
        /\ u[i] = "github.com"
        /\ i + 1 <= Len(u)
        /\ u[i + 1] = "/"
        /\ SegmentThenSlashSegment(SubSeq(u, i + 2, Len(u)))

\* const branchesToTest = ['main', 'master', 'dev', 'develop', 'trunk']
branchesToTest == <<"main", "master", "dev", "develop", "trunk">>

\* what a fetch can come to: a response that is ok, one that is not, or a
\* rejected promise (network error)
FetchOutcomes == {"ok", "notOk", "throws"}

\* what response.json() can come to: a syntax error, the value null, an
\* object without default_branch, one with an empty default_branch, or one
\* that names a branch
JsonBodies == {"malformed", "null", "noField", "empty", "main", "gh-pages"}

Resolved(g, v) == [g EXCEPT !.pc = "done", !.settled = "resolved", !.value = v]

Rejected(g) == [g EXCEPT !.pc = "done", !.settled = "rejected"]

\* detectBranchByTesting is entered: the request for the first branch goes out
Detect(g, why) ==
    [g EXCEPT !.pc = "detect", !.lookup = why, !.requests = g.requests + 1]

\* the loop of detectBranchByTesting without its try/catch
AfterReadme_NoCatch(g, o) ==
    LET tried == Append(g.readme, o)
        h == [g EXCEPT !.readme = tried]
    IN  IF o = "throws" THEN Rejected(h)
        ELSE IF o = "ok" THEN Resolved(h, branchesToTest[Len(tried)])
        ELSE IF Len(tried) = Len(branchesToTest) THEN Resolved(h, "main")
        ELSE [h EXCEPT !.requests = g.requests + 1]

\* one turn of the loop of detectBranchByTesting: the answer o to the request
\* for the next branch; a rejected fetch is caught and the loop goes on
AfterReadme(g, o) ==
    LET tried == Append(g.readme, o)
        h == [g EXCEPT !.readme = tried]
    IN  IF o = "ok" THEN Resolved(h, branchesToTest[Len(tried)])
        ELSE IF Len(tried) = Len(branchesToTest) THEN Resolved(h, "main")
        ELSE [h EXCEPT !.requests = g.requests + 1]

InitGithub ==
    /\ robots = <<>>
    /\ op = "init"
    /\ query = <<>>
    /\ tag = <<>>
    /\ sortBy = "relevance"
    /\ limit = 1
    /\ fuseKey = NoFuse
    /\ fuseOut = <<>>
    /\ prev = NoPrev
    /\ result = NoCall
    /\ ranked = <<>>
    /\ gh = GhIdle
    /\ OthersIdle

\* the call, up to the first await: no match returns 'main', a match sends
\* the request for the repository
GhCall(u) ==
    /\ gh.pc = "idle"
    /\ gh' = IF UrlMatches(u)
             THEN [gh EXCEPT !.pc = "repo", !.url = u, !.requests = 1]
             ELSE Resolved([gh EXCEPT !.url = u], "main")
    /\ UNCHANGED <<robots, op, query, tag, sortBy, limit, fuseKey, fuseOut,
                   prev, result, ranked, otherVars>>

\* await fetch(apiUrl): an ok response is parsed, a response that is not ok
\* goes to detectBranchByTesting, a rejection goes there through the catch
\* block (the URL matched, so it matches again)
GhRepoResponse(o) ==
    /\ gh.pc = "repo"
    /\ gh' = IF o = "ok" THEN [gh EXCEPT !.pc = "json"]
             ELSE IF UrlMatches(gh.url) THEN Detect(gh, o)
             ELSE Resolved(gh, "main")
    /\ UNCHANGED <<robots, op, query, tag, sortBy, limit, fuseKey, fuseOut,
                   prev, result, ranked, otherVars>>

\* await response.json() and return repoData.default_branch || 'main'; a
\* syntax error, and the TypeError of reading a field of null, go to the
\* catch block
GhJson(j) ==
    /\ gh.pc = "json"
    /\ gh' = IF j \in {"malformed", "null"}
             THEN IF UrlMatches(gh.url) THEN Detect(gh, j)
                  ELSE Resolved(gh, "main")
             ELSE IF j \in {"noField", "empty"}
             THEN Resolved([gh EXCEPT !.lookup = "ok"], "main")
             ELSE Resolved([gh EXCEPT !.lookup = "ok"], j)
    /\ UNCHANGED <<robots, op, query, tag, sortBy, limit, fuseKey, fuseOut,
                   prev, result, ranked, otherVars>>

\* await fetch(readmeUrl) in detectBranchByTesting
GhReadmeResponse(o) ==
    /\ gh.pc = "detect"
    /\ gh' = AfterReadme(gh, o)
    /\ UNCHANGED <<robots, op, query, tag, sortBy, limit, fuseKey, fuseOut,
                   prev, result, ranked, otherVars>>

NextGithub ==
    \/ \E u \in Urls : GhCall(u)
    \/ \E o \in FetchOutcomes : GhRepoResponse(o)
    \/ \E j \in JsonBodies : GhJson(j)
    \/ \E o \in FetchOutcomes : GhReadmeResponse(o)

SpecGithub == InitGithub /\ [][NextGithub]_vars

\* the branch the README requests answered so far point to: the first
\* branch of the list whose request was ok, 'main' when there is none
FirstOkBranch(tried) ==
    IF \E k \in 1..Len(tried) : tried[k] = "ok"
    THEN branchesToTest[CHOOSE k \in 1..Len(tried) :
                            /\ tried[k] = "ok"
                            /\ \A m \in 1..(k - 1) : tried[m] # "ok"]
    ELSE "main"

BranchNames == {"main", "master", "dev", "develop", "trunk", "gh-pages"}

-----------------------------------------------------------------------------
(* withTimeoutAndRetry (src/src/lib/performance.ts).  The function runs up  *)
(* to its next await in one step.  While an attempt is racing, the promise   *)
(* of queryFn may resolve, reject (a queryFn that throws at once ends the    *)
(* attempt the same way) or never settle, and the timer of timeoutMs fires.  *)
(* rt.log holds the error of every attempt that failed.                      *)

MaxRetries == 2

\* RETRY_DELAY, in seconds
RETRY_DELAY == 1

\* String.prototype.includes
IsSubstring(needle, s) ==
    \E i \in 0..(Len(s) - Len(needle)) : SubSeq(s, i + 1, i + Len(needle)) = needle

\* messages: 'auth', '403' and '401' inside a longer text, and two texts
\* that hold none of them ('Auth' differs from 'auth' in case)
Messages ==
    { <<"n", "o", " ", "a", "u", "t", "h">>,
      <<"H", "T", "T", "P", " ", "4", "0", "3">>,
      <<"4", "0", "1", "!">>,
      <<"n", "e", "t">>,
      <<"A", "u", "t", "h">> }

\* what queryFn's promise can reject with: an Error, or a value that is not
\* an Error (a plain object with a message)
Errors == [isError : BOOLEAN, message : Messages]

\* new Error('Query timeout')
TimeoutError ==
    [isError |-> TRUE,
     message |-> <<"Q", "u", "e", "r", "y", " ", "t", "i", "m", "e", "o", "u", "t">>]

\* a test for the word 'auth' alone
IsAuthMessage_AuthOnly(m) == IsSubstring(<<"a", "u", "t", "h">>, m)

\* error.message.includes('auth') || includes('403') || includes('401')
IsAuthMessage(m) ==
    \/ IsSubstring(<<"a", "u", "t", "h">>, m)
    \/ IsSubstring(<<"4", "0", "3">>, m)
    \/ IsSubstring(<<"4", "0", "1">>, m)

RECURSIVE Pow2(_)
Pow2(n) == IF n = 0 THEN 1 ELSE 2 * Pow2(n - 1)

\* backoff ? delay * Math.pow(2, attempt) : delay
WaitTime(r) == IF r.backoff THEN RETRY_DELAY * Pow2(r.attempt) ELSE RETRY_DELAY

RtResolved(r, v) == [r EXCEPT !.pc = "done", !.settled = "resolved", !.value = v]

RtRejected(r, e) == [r EXCEPT !.pc = "done", !.settled = "rejected", !.value = e]

\* a catch block that gives up at the first failure
Catch_NoRetry(r, e) ==
    RtRejected([r EXCEPT !.lastError = e, !.log = Append(r.log, e)], e)

\* the catch block: keep the error; rethrow an authorization Error; leave
\* the loop after the last attempt and throw lastError; else start the wait
Catch(r, e) ==
    LET h == [r EXCEPT !.lastError = e, !.log = Append(r.log, e)]
    IN  IF e.isError /\ IsAuthMessage(e.message) THEN RtRejected(h, e)
        ELSE IF h.attempt = h.maxRetries THEN RtRejected(h, h.lastError)
        ELSE [h EXCEPT !.pc = "waiting", !.waits = Append(h.waits, WaitTime(h))]

\* a race without the timeout promise
TimeoutArmed_Never(r) == FALSE

\* Promise.race([queryFn(), timeoutPromise]): the timer runs while the
\* attempt is racing
TimeoutArmed(r) == r.pc = "racing"

\* the state of the search module before any call
SearchIdle ==
    /\ robots = <<>>
    /\ op = "init"
    /\ query = <<>>
    /\ tag = <<>>
    /\ sortBy = "relevance"
    /\ limit = 1
    /\ fuseKey = NoFuse
    /\ fuseOut = <<>>
    /\ prev = NoPrev
    /\ result = NoCall
    /\ ranked = <<>>

InitRetry ==
    /\ SearchIdle
    /\ gh = GhIdle
    /\ OthersIdle

\* withTimeoutAndRetry(queryFn, {maxRetries: m, backoff: b}) up to the first
\* await: attempt 0 calls queryFn and arms the timeout
RtCall(m, b) ==
    /\ rt.pc = "idle"
    /\ rt' = [rt EXCEPT !.pc = "racing", !.maxRetries = m, !.backoff = b,
                        !.attempt = 0, !.invocations = 1]
    /\ UNCHANGED <<searchVars, gh, qb, auth, tm>>

\* queryFn's promise resolves first: return result
RtQueryResolves ==
    /\ rt.pc = "racing"
    /\ rt' = RtResolved(rt, [attempt |-> rt.attempt])
    /\ UNCHANGED <<searchVars, gh, qb, auth, tm>>

\* queryFn's promise rejects first (or queryFn throws)
RtQueryRejects(e) ==
    /\ rt.pc = "racing"
    /\ rt' = Catch(rt, e)
    /\ UNCHANGED <<searchVars, gh, qb, auth, tm>>

\* the timer of timeoutMs fires first: reject(new Error('Query timeout'))
RtTimeoutFires ==
    /\ TimeoutArmed(rt)
    /\ rt' = Catch(rt, TimeoutError)
    /\ UNCHANGED <<searchVars, gh, qb, auth, tm>>

\* the timer of waitTime fires: attempt++ and the next queryFn() call
RtWaitElapses ==
    /\ rt.pc = "waiting"
    /\ rt' = [rt EXCEPT !.pc = "racing", !.attempt = rt.attempt + 1,
                        !.invocations = rt.invocations + 1]
    /\ UNCHANGED <<searchVars, gh, qb, auth, tm>>

NextRetry ==
    \/ \E m \in 0..MaxRetries, b \in BOOLEAN : RtCall(m, b)
    \/ RtQueryResolves
    \/ \E e \in Errors : RtQueryRejects(e)
    \/ RtTimeoutFires
    \/ RtWaitElapses

SpecRetry == InitRetry /\ [][NextRetry]_vars

\* timers fire; whether and when queryFn's promise settles is up to queryFn
SpecRetryFair ==
    /\ InitRetry
    /\ [][NextRetry]_vars
    /\ WF_vars(RtTimeoutFires)
    /\ WF_vars(RtWaitElapses)

\* an error the catch block does not rethrow at once
Retryable(e) ==
    ~ (/\ e.isError
       /\ \/ IsSubstring(<<"a", "u", "t", "h">>, e.message)
          \/ IsSubstring(<<"4", "0", "3">>, e.message)
          \/ IsSubstring(<<"4", "0", "1">>, e.message))

\* C21: withTimeoutAndRetry calls queryFn once per attempt and at most
\* maxRetries + 1 times; a call that resolved returns the result of the first
\* attempt that succeeded and made no call of queryFn after it; a call whose
\* every attempt failed with a retryable error is rejected with the error of
\* the last attempt after exactly maxRetries + 1 calls of queryFn.
C21_AttemptsBounded ==
    /\ rt.invocations <= rt.maxRetries + 1
    /\ rt.pc # "idle" => rt.invocations = rt.attempt + 1
    /\ rt.settled = "resolved" =>
           /\ rt.value = [attempt |-> Len(rt.log)]
           /\ rt.invocations = Len(rt.log) + 1
    /\ (/\ rt.settled = "rejected"
        /\ \A k \in 1..Len(rt.log) : Retryable(rt.log[k])) =>
           /\ rt.invocations = rt.maxRetries + 1
           /\ Len(rt.log) = rt.maxRetries + 1
           /\ rt.value = rt.log[Len(rt.log)]

\* three attempts that fail with retryable errors, the last one by a plain
\* rejection: rejected with that error after three calls and two waits
C21_Witness ==
    /\ rt.settled = "rejected"
    /\ rt.maxRetries = 2
    /\ rt.invocations = 3
    /\ rt.log[1] = TimeoutError
    /\ rt.log[3] = [isError |-> TRUE, message |-> <<"n", "e", "t">>]
    /\ rt.value = rt.log[3]
    /\ rt.waits = <<1, 2>>

\* C22: an attempt that fails with an Error whose message contains 'auth',
\* '403' or '401' ends the call: it is rejected with that very error, with
\* no wait and no call of queryFn after that attempt, whichever attempt it
\* was.
C22_AuthErrorsNotRetried ==
    \A k \in 1..Len(rt.log) :
        (/\ rt.log[k].isError
         /\ \/ IsSubstring(<<"a", "u", "t", "h">>, rt.log[k].message)
            \/ IsSubstring(<<"4", "0", "3">>, rt.log[k].message)
            \/ IsSubstring(<<"4", "0", "1">>, rt.log[k].message)) =>
            /\ k = Len(rt.log)
            /\ rt.settled = "rejected"
            /\ rt.value = rt.log[k]
            /\ rt.invocations = k
            /\ Len(rt.waits) = k - 1

\* a 403 in the second of three allowed attempts ends the call there
C22_Witness ==
    /\ rt.settled = "rejected"
    /\ rt.maxRetries = 2
    /\ Len(rt.log) = 2
    /\ rt.log[2] = [isError |-> TRUE, message |-> <<"H", "T", "T", "P", " ", "4", "0", "3">>]
    /\ rt.invocations = 2

\* C23: provided timers fire, every call of withTimeoutAndRetry settles,
\* also when the promises of queryFn never settle: the timeout ends each
\* attempt, and the attempt counter only grows and stays within maxRetries.
C23_CallSettles ==
    /\ (rt.pc # "idle") ~> (rt.settled # "no")
    /\ [][rt.pc # "idle" =>
            /\ rt'.attempt >= rt.attempt
            /\ rt'.attempt <= rt.maxRetries
            /\ rt.pc = "waiting" => rt'.attempt = rt.attempt + 1]_vars

\* every attempt was ended by the timeout and the call is rejected with it
C23_Witness ==
    /\ rt.settled = "rejected"
    /\ rt.maxRetries = 2
    /\ rt.log = <<TimeoutError, TimeoutError, TimeoutError>>
    /\ rt.value = TimeoutError

-----------------------------------------------------------------------------
(* QueryBatcher (src/src/lib/performance.ts).  Promises and timers are      *)
(* numbered as they are created.  qb.promises holds every promise: a batch   *)
(* promise (new Promise in batch) or the promise of one call of the async    *)
(* method batch, which follows the promise the call returns.  qb.returned    *)
(* holds one entry per call, qb.runs one per queryFn that was started.       *)

MaxCalls == 3

Keys == {"K", "L"}

\* Map.prototype.set and Map.prototype.delete
MapSet(m, k, v) == [x \in DOMAIN m \cup {k} |-> IF x = k THEN v ELSE m[x]]

MapDelete(m, k) == [x \in DOMAIN m \ {k} |-> m[x]]

\* a batcher that never finds a pending batch
HasBatch_Never(q, k) == FALSE

\* this.batches.has(key)
HasBatch(q, k) == k \in DOMAIN q.batches

BatchPromise(k) == [kind |-> "batch", key |-> k, status |-> "pending", follows |-> 0]

\* the promise an async function returns for `return p`: a new promise that
\* settles as p does
AsyncResult(k, p) == [kind |-> "async", key |-> k, status |-> "follows", follows |-> p]

\* finally { this.batches.delete(key); this.timeouts.delete(key) } after
\* resolve(result) or reject(error) on the batch promise p
Settle(q, p, k, how) ==
    [q EXCEPT !.promises[p].status = how,
              !.batches = MapDelete(q.batches, k),
              !.timeouts = MapDelete(q.timeouts, k)]

InitBatcher ==
    /\ SearchIdle
    /\ gh = GhIdle
    /\ OthersIdle

\* batcher.batch(k, queryFn, delayMs), the c-th call: a pending batch is
\* returned; otherwise a timer left in timeouts for k is cleared, a batch
\* promise is created, its timer is scheduled with this call's queryFn, and
\* both maps are set
QbBatch(k) ==
    /\ Len(qb.returned) < MaxCalls
    /\ LET c == Len(qb.returned) + 1
           p == Len(qb.promises) + 1
       IN  IF HasBatch(qb, k)
           THEN qb' = [qb EXCEPT
                    !.promises = Append(qb.promises, AsyncResult(k, qb.batches[k])),
                    !.returned = Append(qb.returned,
                        [key |-> k, promise |-> p, batch |-> qb.batches[k],
                         fresh |-> FALSE])]
           ELSE LET t == Len(qb.timers) + 1
                    cleared == [i \in 1..Len(qb.timers) |->
                                  IF k \in DOMAIN qb.timeouts /\ qb.timeouts[k] = i
                                     /\ qb.timers[i].state = "scheduled"
                                  THEN [qb.timers[i] EXCEPT !.state = "cleared"]
                                  ELSE qb.timers[i]]
                IN  qb' = [qb EXCEPT
                    !.promises = qb.promises \o <<BatchPromise(k), AsyncResult(k, p)>>,
                    !.timers = Append(cleared,
                        [key |-> k, promise |-> p, caller |-> c, state |-> "scheduled"]),
                    !.timeouts = MapSet(qb.timeouts, k, t),
                    !.batches = MapSet(qb.batches, k, p),
                    !.returned = Append(qb.returned,
                        [key |-> k, promise |-> p + 1, batch |-> p, fresh |-> TRUE])]
    /\ UNCHANGED <<searchVars, gh, rt, auth, tm>>

\* the timer t fires and its callback calls queryFn: the promise of queryFn
\* is awaited, or queryFn throws at once and the batch is rejected and
\* cleaned up
QbTimerFires(t, throws) ==
    /\ t \in 1..Len(qb.timers)
    /\ qb.timers[t].state = "scheduled"
    /\ LET tm0 == qb.timers[t]
           q == [qb EXCEPT !.timers[t].state = "fired",
                           !.runs = Append(qb.runs,
                               [key |-> tm0.key, promise |-> tm0.promise,
                                caller |-> tm0.caller,
                                state |-> IF throws THEN "done" ELSE "running"])]
       IN  qb' = IF throws THEN Settle(q, tm0.promise, tm0.key, "rejected") ELSE q
    /\ UNCHANGED <<searchVars, gh, rt, auth, tm>>

\* the promise of the r-th queryFn settles: resolve or reject, then finally
QbQuerySettles(r, how) ==
    /\ r \in 1..Len(qb.runs)
    /\ qb.runs[r].state = "running"
    /\ qb' = Settle([qb EXCEPT !.runs[r].state = "done"],
                    qb.runs[r].promise, qb.runs[r].key, how)
    /\ UNCHANGED <<searchVars, gh, rt, auth, tm>>

NextBatcher ==
    \/ \E k \in Keys : QbBatch(k)
    \/ \E t \in 1..MaxCalls, throws \in BOOLEAN : QbTimerFires(t, throws)
    \/ \E r \in 1..MaxCalls, how \in {"resolved", "rejected"} : QbQuerySettles(r, how)

SpecBatcher == InitBatcher /\ [][NextBatcher]_vars

\* the calls of batch that came back with the batch promise p to follow
CallsOf(p) == {c \in 1..Len(qb.returned) : qb.returned[c].batch = p}

\* C24, as stated: every further batch(K, ...) call in a pending window
\* returns the same promise as the first one.
C24_SamePromiseObject ==
    \A c, d \in 1..Len(qb.returned) :
        qb.returned[c].batch = qb.returned[d].batch =>
            qb.returned[c].promise = qb.returned[d].promise

\* C24, amended: from the first batch(K, ...) call until its query settles,
\* every further batch(K, ...) call returns a promise of its own that
\* follows the one batch promise stored for K, and neither schedules a timer
\* nor runs a queryFn: per batch promise there is one timer, that of the
\* first caller, and at most one queryFn run, the first caller's.  At most
\* one batch promise per key is pending; the pending ones are exactly those
\* in batches.  A settled batch promise is in neither map, and a call after
\* that creates a new batch promise.  The key sets of batches and timeouts
\* are equal.
C24_DedupByKey ==
    /\ DOMAIN qb.batches = DOMAIN qb.timeouts
    /\ \A c \in 1..Len(qb.returned) :
           LET e == qb.returned[c]
           IN  /\ qb.promises[e.promise] = AsyncResult(e.key, e.batch)
               /\ qb.promises[e.batch].kind = "batch"
               /\ qb.promises[e.batch].key = e.key
               /\ e.fresh <=> \A d \in CallsOf(e.batch) : c <= d
               /\ \A d \in 1..(c - 1) :
                      (/\ qb.returned[d].key = e.key
                       /\ qb.promises[qb.returned[d].batch].status = "pending")
                          => qb.returned[d].batch = e.batch
    /\ \A p \in 1..Len(qb.promises) : qb.promises[p].kind = "batch" =>
           LET ts == {t \in 1..Len(qb.timers) : qb.timers[t].promise = p}
               rs == {r \in 1..Len(qb.runs) : qb.runs[r].promise = p}
           IN  /\ Cardinality(ts) = 1
               /\ Cardinality(rs) <= 1
               /\ \A t \in ts : /\ qb.timers[t].state # "cleared"
                                /\ \A d \in CallsOf(p) : qb.timers[t].caller <= d
                                /\ qb.timers[t].caller \in CallsOf(p)
               /\ \A r \in rs : \A t \in ts : qb.runs[r].caller = qb.timers[t].caller
               /\ qb.promises[p].status = "pending" <=>
                      /\ qb.promises[p].key \in DOMAIN qb.batches
                      /\ qb.batches[qb.promises[p].key] = p
               /\ qb.promises[p].status = "pending" =>
                      qb.timeouts[qb.promises[p].key] \in ts

\* two calls for K share one batch promise and one queryFn run; after it
\* resolved, a third call for K has a new batch promise and a new timer
C24_Witness ==
    /\ Len(qb.returned) = 3
    /\ \A c \in 1..3 : qb.returned[c].key = "K"
    /\ qb.returned[1].batch = qb.returned[2].batch
    /\ ~ qb.returned[2].fresh
    /\ qb.promises[qb.returned[1].batch].status = "resolved"
    /\ qb.returned[3].fresh
    /\ qb.returned[3].batch # qb.returned[1].batch
    /\ Len(qb.runs) = 1
    /\ Len(qb.timers) = 2

-----------------------------------------------------------------------------
(* AuthProvider (src/src/contexts/AuthContext.tsx).  The state is that of    *)
(* the mounted component: the three useState cells, the locals `mounted`     *)
(* and `sessionInitialized` of the effect, and what is in flight: the timer  *)
(* of initializeAuth, its race of getSession against the 10 s timeout, and   *)
(* the profile requests.  Each handler runs up to its next await in one      *)
(* step.  auth.eventSet and auth.initApplied record which writer has set     *)
(* the session so far.                                                       *)

MaxEvents == 2

Users == {"A", "B"}

Session(u, t) == [kind |-> "session", user |-> u, token |-> t]

\* the sessions an event or getSession can carry; null is NullSession
Sessions == {Session("A", 1), Session("A", 2), Session("B", 1)}

\* the events the Supabase client delivers
AuthEvents ==
    [kind : {"INITIAL_SESSION"}, session : Sessions \cup {NullSession}]
        \cup [kind : {"SIGNED_IN", "TOKEN_REFRESHED"}, session : Sessions]
        \cup [kind : {"SIGNED_OUT"}, session : {NullSession}]

\* session || false
OrFalse(s) == IF s.kind = "session" THEN s ELSE FalseSession

\* the id of `user` as the callback sees it: the callback is created by the
\* effect of the first render (dependency list []), whose `user` is null, so
\* user?.id is undefined in every call
CapturedUserId(a) == "undefined"

\* session?.user?.id
NewUserId(s) == IF s.kind = "session" THEN s.user ELSE "undefined"

\* setSession(session || false); setUser(session?.user ?? null); then the
\* profile request for a session with a user, setProfile(null) otherwise
ProcessEvent(a, s) ==
    IF s.kind = "session"
    THEN [a EXCEPT !.session = s, !.user = s.user,
                   !.pending[s.user] = a.pending[s.user] + 1]
    ELSE [a EXCEPT !.session = FalseSession, !.user = "null", !.profile = "null"]

\* the callback of onAuthStateChange, up to its await
OnAuthStateChange(a, e) ==
    IF e.kind = "INITIAL_SESSION"
    THEN IF ~ a.sessionInitialized
         THEN [ProcessEvent(a, e.session) EXCEPT !.sessionInitialized = TRUE,
                                                 !.eventSet = TRUE]
         ELSE a
    ELSE IF e.kind = "SIGNED_IN" /\ a.sessionInitialized
    THEN IF CapturedUserId(a) = NewUserId(e.session) /\ e.session.kind = "session"
         THEN [a EXCEPT !.session = e.session, !.eventSet = TRUE]
         ELSE [ProcessEvent(a, e.session) EXCEPT !.eventSet = TRUE]
    ELSE [ProcessEvent(a, e.session) EXCEPT !.eventSet = TRUE]

\* a catch block of initializeAuth that leaves the session as it is
SessionOnFailure_Keep(a) == a.session

\* the catch block of initializeAuth: setSession(false)
SessionOnFailure(a) == FalseSession

\* the catch block of initializeAuth
InitFailed(a) ==
    IF a.mounted /\ ~ a.sessionInitialized
    THEN [a EXCEPT !.init = "done", !.sessionInitialized = TRUE,
                   !.session = SessionOnFailure(a)]
    ELSE [a EXCEPT !.init = "done"]

\* initializeAuth after the race was won by getSession with session s
InitSucceeded(a, s) ==
    IF a.mounted /\ ~ a.sessionInitialized
    THEN [a EXCEPT !.init = "done", !.sessionInitialized = TRUE,
                   !.session = OrFalse(s),
                   !.user = IF s.kind = "session" THEN s.user ELSE "null",
                   !.pending = IF s.kind = "session"
                               THEN [a.pending EXCEPT ![s.user] = @ + 1]
                               ELSE a.pending,
                   !.initApplied = a.initApplied + 1]
    ELSE [a EXCEPT !.init = "done"]

\* the effect has run: the listener is subscribed and
\* setTimeout(initializeAuth, 100) is pending
InitAuth ==
    /\ SearchIdle
    /\ gh = GhIdle
    /\ rt = RtIdle
    /\ qb = QbIdle
    /\ tm = TmIdle
    /\ auth = AuthState(TRUE, "scheduled")

\* an auth-state-change event is delivered to the listener
AuthEvent(e) ==
    /\ auth.mounted
    /\ auth.events < MaxEvents
    /\ auth' = [OnAuthStateChange(auth, e) EXCEPT !.events = auth.events + 1,
                                                  !.event = e]
    /\ UNCHANGED <<searchVars, gh, rt, qb, tm>>

\* the 100 ms timer fires: initializeAuth returns at once when the session
\* is initialized, else it calls getSession and arms the 10 s timeout
AuthInitTimer ==
    /\ auth.init = "scheduled"
    /\ auth' = [auth EXCEPT !.init = IF auth.sessionInitialized THEN "done"
                                     ELSE "racing"]
    /\ UNCHANGED <<searchVars, gh, rt, qb, tm>>

\* getSession settles first: with a session or null, or by rejecting
AuthGetSession(s, rejects) ==
    /\ auth.init = "racing"
    /\ auth' = IF rejects THEN InitFailed(auth) ELSE InitSucceeded(auth, s)
    /\ UNCHANGED <<searchVars, gh, rt, qb, tm>>

\* the 10 s timer fires first: reject(new Error('Session timeout'))
AuthSessionTimeout ==
    /\ auth.init = "racing"
    /\ auth' = InitFailed(auth)
    /\ UNCHANGED <<searchVars, gh, rt, qb, tm>>

\* a profile request for user u comes back (with the profile, or with null
\* after an error): if (mounted) setProfile(profileData)
AuthFetchDone(u, found) ==
    /\ auth.pending[u] > 0
    /\ auth' = [auth EXCEPT !.pending[u] = auth.pending[u] - 1,
                            !.profile = IF ~ auth.mounted THEN auth.profile
                                        ELSE IF found THEN u ELSE "null"]
    /\ UNCHANGED <<searchVars, gh, rt, qb, tm>>

\* the cleanup of the effect: mounted = false; subscription.unsubscribe()
AuthUnmount ==
    /\ auth.mounted
    /\ auth' = [auth EXCEPT !.mounted = FALSE]
    /\ UNCHANGED <<searchVars, gh, rt, qb, tm>>

NextAuth ==
    \/ \E e \in AuthEvents : AuthEvent(e)
    \/ AuthInitTimer
    \/ \E s \in Sessions \cup {NullSession}, rejects \in BOOLEAN : AuthGetSession(s, rejects)
    \/ AuthSessionTimeout
    \/ \E u \in Users, found \in BOOLEAN : AuthFetchDone(u, found)
    \/ AuthUnmount

SpecAuth == InitAuth /\ [][NextAuth]_vars

\* timers fire; nothing is assumed about getSession, events or requests
SpecAuthFair ==
    /\ InitAuth
    /\ [][NextAuth]_vars
    /\ WF_vars(AuthInitTimer)
    /\ WF_vars(AuthSessionTimeout)

\* loading: session === null
Loading == auth.session.kind = "null"

\* C25: while AuthProvider stays mounted its loading flag becomes false, and
\* once false it is never true again: also when getSession never settles
\* (the 10 s timeout fires), when it rejects, and when no event arrives.
C25_LoadingEnds ==
    /\ <>(~ auth.mounted \/ ~ Loading)
    /\ [][~ Loading => auth'.session.kind # "null"]_vars

\* no event was delivered and getSession did not deliver a session: the
\* component is mounted and loaded without a session
C25_Witness ==
    /\ auth.mounted
    /\ auth.events = 0
    /\ auth.init = "done"
    /\ auth.initApplied = 0
    /\ auth.session = FalseSession

\* C26: once an auth-state-change event has set the session and the user,
\* initializeAuth does not apply the session getSession returned: the
\* initial session is applied at most once and never over state an event
\* has set.
C26_InitNeverOverwritesEvent ==
    [][auth'.initApplied # auth.initApplied =>
           /\ ~ auth.eventSet
           /\ auth.initApplied = 0]_vars

\* C27: a SIGNED_IN event that arrives when the session is initialized and
\* carries a session of the user who is signed in only replaces the
\* session: user and profile stay as they are and no profile request is
\* sent.
C27_SameUserSignInOnlySetsSession ==
    [][(/\ auth'.events = auth.events + 1
        /\ auth'.event.kind = "SIGNED_IN"
        /\ auth.sessionInitialized
        /\ auth'.event.session.user = auth.user) =>
           /\ auth'.session = auth'.event.session
           /\ auth'.user = auth.user
           /\ auth'.profile = auth.profile
           /\ auth'.pending = auth.pending]_vars

-----------------------------------------------------------------------------
(* TagManager (src/src/components/forms/TagManager.tsx).  The component is  *)
(* controlled: `tags` is the parent's list, which onTagsChange replaces, and *)
(* the component is rendered again before the next event.  Tags are          *)
(* sequences of characters.                                                  *)

MaxTags == 3

\* what a user types, and tags that stand in a list the parent loaded
TagInputs ==
    { <<>>, <<" ">>, <<"a">>, <<" ", "A", " ">>, <<"b">>, <<"A", "b">>,
      <<"a", " ", "b">>, <<"A">> }

\* the duplicate-free lists the parent may start with
StartLists == {<<>>, <<<<"a">>>>, <<<<"A">>>>, <<<<"b">>, <<"a">>>>}

\* an addTag that does not look whether the tag is in the list
addTag_NoCheck(tags, t) ==
    LET trimmedTag == ToLowerCase(Trim(t))
    IN  IF trimmedTag # <<>> THEN Append(tags, trimmedTag) ELSE tags

\* addTag: the list onTagsChange is called with, or the list as it is when
\* onTagsChange is not called
addTag(tags, t) ==
    LET trimmedTag == ToLowerCase(Trim(t))
    IN  IF trimmedTag # <<>> /\ ~ Includes(tags, trimmedTag)
        THEN Append(tags, trimmedTag)
        ELSE tags

\* removeTag: tags.filter(tag => tag !== tagToRemove)
removeTag(tags, tagToRemove) ==
    LET Other(x) == x # tagToRemove IN SelectSeq(tags, Other)

InitTags ==
    /\ SearchIdle
    /\ gh = GhIdle
    /\ rt = RtIdle
    /\ qb = QbIdle
    /\ auth = AuthIdle
    /\ \E l \in StartLists : tm = [TmIdle EXCEPT !.op = "render", !.tags = l]

\* onChange of the input: setTagInput(e.target.value)
TmType(x) ==
    /\ tm.op # "none"
    /\ tm' = [tm EXCEPT !.op = "type", !.tagInput = x]
    /\ UNCHANGED <<searchVars, gh, rt, qb, auth>>

\* Enter, comma or the button: addTag(tagInput); the input is emptied when
\* the tag was added
TmAddTag ==
    /\ tm.op # "none"
    /\ Len(addTag(tm.tags, tm.tagInput)) <= MaxTags
    /\ tm' = [op |-> "addTag", arg |-> tm.tagInput, before |-> tm.tags,
              tags |-> addTag(tm.tags, tm.tagInput),
              tagInput |-> IF addTag(tm.tags, tm.tagInput) # tm.tags
                           THEN <<>> ELSE tm.tagInput]
    /\ UNCHANGED <<searchVars, gh, rt, qb, auth>>

\* the X button of a tag: removeTag(tag)
TmRemoveTag(t) ==
    /\ tm.op # "none"
    /\ tm' = [tm EXCEPT !.op = "removeTag", !.arg = t, !.before = tm.tags,
                        !.tags = removeTag(tm.tags, t)]
    /\ UNCHANGED <<searchVars, gh, rt, qb, auth>>

NextTags ==
    \/ \E x \in TagInputs : TmType(x)
    \/ TmAddTag
    \/ \E t \in TagInputs : TmRemoveTag(t)

SpecTags == InitTags /\ [][NextTags]_vars

NoDuplicates(l) == \A i, j \in 1..Len(l) : i # j => l[i] # l[j]

\* non-empty, no white space at either end, no upper-case letter
IsNormalTag(t) ==
    /\ t # <<>>
    /\ ~ IsSpace(t[1])
    /\ ~ IsSpace(t[Len(t)])
    /\ \A i \in 1..Len(t) : t[i] \notin {"A", "B", "O", "S"}

Elements(l) == {l[i] : i \in 1..Len(l)}

\* C28: starting from a list without duplicates, the list never holds a
\* duplicate after addTag and removeTag; addTag with a blank tag, or with a
\* tag whose trimmed lower-case form is in the list, leaves the list as it
\* is, and otherwise appends that form, which is non-empty, trimmed and
\* lower-case; removeTag takes out the given tag and leaves the others in
\* their order.
C28_TagListInvariant ==
    /\ NoDuplicates(tm.tags)
    /\ tm.op = "addTag" =>
           LET n == ToLowerCase(Trim(tm.arg))
           IN  IF n = <<>> \/ n \in Elements(tm.before)
               THEN tm.tags = tm.before
               ELSE /\ tm.tags = Append(tm.before, n)
                    /\ IsNormalTag(tm.tags[Len(tm.tags)])
    /\ tm.op = "removeTag" =>
           /\ Elements(tm.tags) = Elements(tm.before) \ {tm.arg}
           /\ Len(tm.tags) = Cardinality(Elements(tm.tags))
           /\ \A i, j \in 1..Len(tm.tags) : i < j =>
                  \E k, m \in 1..Len(tm.before) :
                      k < m /\ tm.before[k] = tm.tags[i] /\ tm.before[m] = tm.tags[j]

\* " A " typed into a list that holds "b" and "a": nothing is added
C28_Witness ==
    /\ tm.op = "addTag"
    /\ tm.arg = <<" ", "A", " ">>
    /\ tm.before = <<<<"b">>, <<"a">>>>
    /\ tm.tags = tm.before

====
